---- MODULE Spec2Model ----
\* The CalDAV client facade of src/services/caldavService.js: the module-level
\* client singleton, the thirteen exported operations, and the DAV library they
\* call into, seen as an environment that answers each request once.
EXTENDS Integers, Sequences, FiniteSets, TLC

\* ---------------------------------------------------------------- bounds
\* Facade calls made in one behaviour.
MaxCalls == 2
\* Longest token list handed to findPublicCalendarsByTokens.
MaxTokens == 2
\* Requests the library asks the provider for, and open() calls on one of them.
MaxXhrs == 2
MaxOpens == 2
\* Settings handlers invoked in one behaviour.
MaxHandlers == 3

\* ---------------------------------------------------------------- values
\* JavaScript values are records, so that any two of them can be compared.
NULL == [null |-> TRUE]
UNDEFINED == [undefined |-> TRUE]
Error(name) == [error |-> name]
List(s) == [list |-> s]
TypeError == Error("TypeError")
CALDAV_BIRTHDAY_CALENDAR == "contact_birthdays"

\* Inputs of the operations.
Tokens == {"tokA", "tokB"}
TokenLists == UNION {[1..n -> Tokens] : n \in 0..MaxTokens}
\* The token lists tried beside the other twelve operations.
FewTokenLists == {<<>>, <<"tokA">>, <<"tokA", "tokB">>}
Box(name) == [box |-> name]
BoxLists == {<<>>, <<Box("box1")>>, <<Box("box1"), Box("box2")>>,
             <<Box("box2"), Box("box1")>>}
\* displayName, color, components, order, timezoneIcs.
CalendarArgs == {<<"Work", "#FF0000", {"VEVENT"}, "1", "tz-ics">>,
                 <<"Tasks", "#0000FF", {"VEVENT", "VTODO"}, "2", "tz-utc">>}
SubscriptionArgs == {<<"Feed", "#00FF00", "webcal://feed", "2">>}
Queries == {"ann"}
Urls == {"/principals/ann"}

\* Errors a request of the DAV library can fail with.
Errors == {"NetworkError", "HttpError"}
NotFound == "NotFound"
AlreadyExists == "AlreadyExists"

VARIABLES
  client,               \* the module variable: NULL or the DavClient instance
  constructed,          \* how many times new DavClient(...) has run
  handed,               \* every value getClient() has returned
  calendarHomes,        \* client.calendarHomes
  publicCalendarHome,   \* client.publicCalendarHome
  currentUserPrincipal, \* client.currentUserPrincipal
  birthdayEnabled,      \* server: the birthday calendar exists
  serverCalendars,      \* server: the calendars created in the user's home
  calls,                \* the facade calls made so far, in invocation order
  recursion,            \* of every getClient() call: was client null, how deep it went
  arrived,              \* SpecArrival: the token finds in the order of their answers
  requestToken,         \* what getRequestToken() returns
  xhrs,                 \* every XMLHttpRequest the provider has constructed
  provided,             \* what the provider has returned, call by call
  saving,               \* the saving... flags of the settings component
  loadingCalendars,     \* the loadingCalendars prop of the settings component
  handlers              \* the settings handlers invoked so far

vars == <<client, constructed, handed, calendarHomes, publicCalendarHome,
          currentUserPrincipal, birthdayEnabled, serverCalendars, calls,
          recursion, arrived, requestToken, xhrs, provided, saving,
          loadingCalendars, handlers>>

module == <<client, constructed, handed, recursion>>
session == <<calendarHomes, publicCalendarHome, currentUserPrincipal>>
browser == <<requestToken, xhrs, provided>>
settings == <<saving, loadingCalendars, handlers>>
server == <<birthdayEnabled, serverCalendars>>

\* The values getRequestToken() takes over time.
RequestTokens == {"token1", "token2"}

\* The saving flags of the settings component, in the order of data().
Flags == {"savingBirthdayCalendar", "savingEventLimit", "savingTasks",
          "savingPopover", "savingSlotDuration", "savingWeekend",
          "savingWeekNumber"}

\* ---------------------------------------------------------------- getClient
\* The value getClient() returns from module state (cl, n), with the state it
\* leaves and the depth of its self-recursion. A DavClient instance is named by
\* the ordinal of its construction.
RECURSIVE getClient(_, _, _)
DavClient(n) == [davClient |-> n]

getClientAlwaysConstructs(cl, n, d) ==
  [client |-> DavClient(n + 1), constructed |-> n + 1, depth |-> d,
   ret |-> DavClient(n + 1)]

getClientRecursesTwice(cl, n, d) ==
  IF cl # NULL
    THEN [client |-> cl, constructed |-> n, depth |-> d, ret |-> cl]
    ELSE [client |-> DavClient(n + 2), constructed |-> n + 2, depth |-> d + 2,
          ret |-> DavClient(n + 2)]

getClient(cl, n, d) ==
  IF cl # NULL
    THEN [client |-> cl, constructed |-> n, depth |-> d, ret |-> cl]
    ELSE getClient(DavClient(n + 1), n + 1, d + 1)

\* k calls of getClient() in a row (k = 0 leaves the module state alone).
RECURSIVE getClientTimes(_, _, _)
getClientTimes(cl, n, k) ==
  IF k = 0
    THEN [client |-> cl, constructed |-> n, rets |-> {}, depths |-> {}]
    ELSE LET g == getClient(cl, n, 0)
             r == getClientTimes(g.client, g.constructed, k - 1)
         IN  [client |-> r.client, constructed |-> r.constructed,
              rets |-> {g.ret} \cup r.rets,
              depths |-> {[wasNull |-> cl = NULL, depth |-> g.depth]} \cup r.depths]

UseClient(k) ==
  LET g == getClientTimes(client, constructed, k)
  IN  /\ client' = g.client
      /\ constructed' = g.constructed
      /\ handed' = handed \cup g.rets
      /\ recursion' = recursion \cup g.depths

\* ---------------------------------------------------------------- calls
\* A request handed to the DAV library, and a facade call.
Req(on, kind, args) ==
  [on |-> on, kind |-> kind, args |-> args, status |-> "pending", value |-> NULL]

\* `seen` is the session the call found when it was made.
NewCall(op, args, target, state, value, reqs) ==
  [op |-> op, args |-> args, target |-> target, state |-> state,
   value |-> value, reqs |-> reqs,
   seen |-> [homes |-> calendarHomes, publicHome |-> publicCalendarHome]]

\* calendarHomes[0]: undefined on an empty list.
FirstHome == IF calendarHomes = <<>> THEN UNDEFINED ELSE calendarHomes[1]

\* An async function calling a method of `target`: a TypeError rejects the
\* returned promise when target is undefined or null, else the request is out.
AsyncOn(op, args, target, kind, rargs) ==
  IF target \in {UNDEFINED, NULL}
    THEN NewCall(op, args, target, "rejected", TypeError, <<>>)
    ELSE NewCall(op, args, target, "pending", NULL, <<Req(target, kind, rargs)>>)

\* The same from a function that is not async: the TypeError is thrown at the
\* caller, and otherwise the library's promise is the result.
SyncOn(op, args, target, kind, rargs) ==
  IF target \in {UNDEFINED, NULL}
    THEN NewCall(op, args, target, "threw", TypeError, <<>>)
    ELSE NewCall(op, args, target, "pending", NULL, <<Req(target, kind, rargs)>>)

Invoke(c) == calls' = Append(calls, c)

\* ---------------------------------------------------------------- the DAV library
\* What the library and the server behind it answer to a request: each request
\* is answered once, with a value or with an error.
Ok(v) == [ok |-> TRUE, value |-> v]
Fail(e) == [ok |-> FALSE, value |-> e]
Failures(S) == {Fail(Error(e)) : e \in S}

Calendar(a) ==
  [displayName |-> a[1], color |-> a[2], components |-> a[3], order |-> a[4],
   timezone |-> a[5]]
Subscription(a) ==
  [displayName |-> a[1], color |-> a[2], source |-> a[3], order |-> a[4]]
PublicCalendar(token) == [token |-> token]
BirthdayCalendar == [uri |-> CALDAV_BIRTHDAY_CALENDAR]
Principal == [principal |-> "ann"]
UserHome == [home |-> "user"]
PublicHome == [home |-> "public"]

Responses(r) ==
  CASE r.kind = "connect" -> {Ok(UNDEFINED)} \cup Failures(Errors)
    [] r.kind = "_createPublicCalendarHome" -> {Ok(UNDEFINED)} \cup Failures(Errors)
    [] r.kind = "findAllCalendars" -> {Ok(List(serverCalendars))} \cup Failures(Errors)
    [] r.kind = "find" /\ r.on = PublicHome ->
         {Ok(PublicCalendar(r.args[1]))} \cup Failures({NotFound, "NetworkError"})
    [] r.kind = "find" /\ r.on # PublicHome ->
         (IF birthdayEnabled /\ r.args = <<CALDAV_BIRTHDAY_CALENDAR>>
            THEN {Ok(BirthdayCalendar)} ELSE Failures({NotFound}))
         \cup Failures(Errors)
    [] r.kind \in {"findAllScheduleInboxes", "findAllScheduleOutboxes"} ->
         {Ok(List(l)) : l \in BoxLists} \cup Failures(Errors)
    [] r.kind = "createCalendarCollection" ->
         {Ok(Calendar(r.args))} \cup Failures(Errors)
    [] r.kind = "createSubscribedCollection" ->
         {Ok(Subscription(r.args))} \cup Failures(Errors)
    [] r.kind = "enableBirthdayCalendar" ->
         {Ok(UNDEFINED)}
         \cup Failures(Errors \cup (IF birthdayEnabled THEN {AlreadyExists} ELSE {}))
    [] r.kind = "principalPropertySearchByDisplayname" ->
         {Ok(List(<<>>)), Ok(List(<<Principal>>))} \cup Failures(Errors)
    [] r.kind = "findPrincipal" -> {Ok(Principal)} \cup Failures({NotFound} \cup Errors)

\* What an answered request leaves behind in the client object and on the server.
Effects(r, resp) ==
  /\ calendarHomes' =
       IF r.kind = "connect" /\ resp.ok THEN <<UserHome>> ELSE calendarHomes
  /\ currentUserPrincipal' =
       IF r.kind = "connect" /\ resp.ok THEN Principal ELSE currentUserPrincipal
  /\ publicCalendarHome' =
       IF r.kind = "_createPublicCalendarHome" /\ resp.ok
         THEN PublicHome ELSE publicCalendarHome
  /\ birthdayEnabled' =
       IF r.kind = "enableBirthdayCalendar" /\ resp.ok THEN TRUE ELSE birthdayEnabled
  /\ serverCalendars' =
       IF r.kind = "createCalendarCollection" /\ resp.ok
         THEN Append(serverCalendars, resp.value) ELSE serverCalendars

Answered(r, resp) ==
  [r EXCEPT !.status = IF resp.ok THEN "ok" ELSE "failed", !.value = resp.value]

\* ---------------------------------------------------------------- continuations
\* What each operation makes of the answer it awaits: the state and value of
\* the promise it returned.
Fulfilled(v) == [state |-> "fulfilled", value |-> v]
Rejected(e) == [state |-> "rejected", value |-> e]
Finish(c, outcome) == [c EXCEPT !.state = outcome.state, !.value = outcome.value]

\* `await x` with nothing returned afterwards.
initializeClientForUserViewSwallows(resp) == Fulfilled(UNDEFINED)

initializeClientForUserViewAwait(resp) ==
  IF resp.ok THEN Fulfilled(UNDEFINED) ELSE Rejected(resp.value)

initializeClientForPublicViewAwait(resp) ==
  IF resp.ok THEN Fulfilled(UNDEFINED) ELSE Rejected(resp.value)

\* The library's promise handed to the caller as it is.
PassThroughSwallows(resp) ==
  IF resp.ok THEN Fulfilled(resp.value) ELSE Fulfilled(UNDEFINED)

PassThrough(resp) ==
  IF resp.ok THEN Fulfilled(resp.value) ELSE Rejected(resp.value)

\* list[0] of a JavaScript array: undefined when the array is empty.
First(array) == IF array.list = <<>> THEN UNDEFINED ELSE array.list[1]

findSchedulingInboxRejectsEmpty(resp) ==
  IF resp.ok /\ resp.value.list # <<>>
    THEN Fulfilled(resp.value.list[1]) ELSE Rejected(TypeError)

findSchedulingInboxAwait(resp) ==
  IF resp.ok THEN Fulfilled(First(resp.value)) ELSE Rejected(resp.value)

findSchedulingOutboxAwait(resp) ==
  IF resp.ok THEN Fulfilled(First(resp.value)) ELSE Rejected(resp.value)

\* .catch(() => null) on one token's find.
findPromiseValue(r) == IF r.status = "ok" THEN r.value ELSE NULL

\* calendars.filter((calendar) => calendar !== null)
filterKeepsAll(list) == list

RECURSIVE filterNotNull(_)
filterNotNull(list) ==
  IF list = <<>> THEN <<>>
  ELSE IF Head(list) = NULL THEN filterNotNull(Tail(list))
  ELSE <<Head(list)>> \o filterNotNull(Tail(list))

\* ---------------------------------------------------------------- operations
\* The one library call each initializer makes on the client.
initializeClientForUserViewRequest(cl) == Req(cl, "connect", <<"enableCalDAV">>)

initializeClientForPublicViewConnects(cl) == Req(cl, "connect", <<"enableCalDAV">>)

initializeClientForPublicViewRequest(cl) == Req(cl, "_createPublicCalendarHome", <<>>)

initializeClientForUserView ==
  /\ UseClient(1)
  /\ Invoke(NewCall("initializeClientForUserView", <<>>, client', "pending", NULL,
                    <<initializeClientForUserViewRequest(client')>>))
  /\ UNCHANGED <<session, server, arrived, browser, settings>>

initializeClientForPublicView ==
  /\ UseClient(1)
  /\ Invoke(NewCall("initializeClientForPublicView", <<>>, client', "pending", NULL,
                    <<initializeClientForPublicViewRequest(client')>>))
  /\ UNCHANGED <<session, server, arrived, browser, settings>>

findAllCalendars ==
  /\ UseClient(1)
  /\ Invoke(SyncOn("findAllCalendars", <<>>, FirstHome, "findAllCalendars", <<>>))
  /\ UNCHANGED <<session, server, arrived, browser, settings>>

\* The loop of findPublicCalendarsByTokens up to its await: one find per token,
\* or a TypeError on the first token when there is no public calendar home.
findPromisesOneAtATime(tokens) ==
  [i \in DOMAIN tokens \cap {1} |-> Req(publicCalendarHome, "find", <<tokens[i]>>)]

findPromises(tokens) ==
  [i \in DOMAIN tokens |-> Req(publicCalendarHome, "find", <<tokens[i]>>)]

findPublicCalendarsByTokens(tokens) ==
  LET broken == publicCalendarHome = NULL /\ tokens # <<>>
  IN  /\ UseClient(IF broken THEN 1 ELSE Len(tokens))
      /\ Invoke(IF broken
                  THEN NewCall("findPublicCalendarsByTokens", tokens,
                               publicCalendarHome, "rejected", TypeError, <<>>)
                  ELSE NewCall("findPublicCalendarsByTokens", tokens,
                               publicCalendarHome, "pending", NULL,
                               findPromises(tokens)))
      /\ UNCHANGED <<session, server, arrived, browser, settings>>

findSchedulingInbox ==
  /\ UseClient(1)
  /\ Invoke(AsyncOn("findSchedulingInbox", <<>>, FirstHome,
                    "findAllScheduleInboxes", <<>>))
  /\ UNCHANGED <<session, server, arrived, browser, settings>>

findSchedulingOutbox ==
  /\ UseClient(1)
  /\ Invoke(AsyncOn("findSchedulingOutbox", <<>>, FirstHome,
                    "findAllScheduleOutboxes", <<>>))
  /\ UNCHANGED <<session, server, arrived, browser, settings>>

\* The argument list createCalendar hands to createCalendarCollection.
createCalendarSwapsNameAndColor(args) ==
  <<args[2], args[1], args[3], args[4], args[5]>>

createCalendarArguments(args) ==
  <<args[1], args[2], args[3], args[4], args[5]>>

createCalendar(args) ==
  /\ UseClient(1)
  /\ Invoke(AsyncOn("createCalendar", args, FirstHome,
                    "createCalendarCollection", createCalendarArguments(args)))
  /\ UNCHANGED <<session, server, arrived, browser, settings>>

createSubscription(args) ==
  /\ UseClient(1)
  /\ Invoke(AsyncOn("createSubscription", args, FirstHome,
                    "createSubscribedCollection", args))
  /\ UNCHANGED <<session, server, arrived, browser, settings>>

enableBirthdayCalendar ==
  /\ UseClient(1)
  /\ Invoke(AsyncOn("enableBirthdayCalendar", <<>>, FirstHome,
                    "enableBirthdayCalendar", <<>>))
  /\ UNCHANGED <<session, server, arrived, browser, settings>>

getBirthdayCalendar ==
  /\ UseClient(1)
  /\ Invoke(AsyncOn("getBirthdayCalendar", <<>>, FirstHome,
                    "find", <<CALDAV_BIRTHDAY_CALENDAR>>))
  /\ UNCHANGED <<session, server, arrived, browser, settings>>

\* Not async and no method call: the property is read and returned.
currentUserPrincipalOf(principal) == [state |-> "returned", value |-> principal]

getCurrentUserPrincipal ==
  /\ UseClient(1)
  /\ LET out == currentUserPrincipalOf(currentUserPrincipal)
     IN  Invoke(NewCall("getCurrentUserPrincipal", <<>>,
                        client',
                        out.state, out.value, <<>>))
  /\ UNCHANGED <<session, server, arrived, browser, settings>>

findPrincipalsByDisplayName(query) ==
  /\ UseClient(1)
  /\ Invoke(AsyncOn("findPrincipalsByDisplayName", <<query>>, client',
                    "principalPropertySearchByDisplayname", <<query>>))
  /\ UNCHANGED <<session, server, arrived, browser, settings>>

findPrincipalByUrl(url) ==
  /\ UseClient(1)
  /\ Invoke(AsyncOn("findPrincipalByUrl", <<url>>, client', "findPrincipal", <<url>>))
  /\ UNCHANGED <<session, server, arrived, browser, settings>>

\* ---------------------------------------------------------------- answers
\* The promise of a call once the answer it awaits is in.
Resume(c, resp) ==
  CASE c.op = "initializeClientForUserView" -> initializeClientForUserViewAwait(resp)
    [] c.op = "initializeClientForPublicView" -> initializeClientForPublicViewAwait(resp)
    [] c.op = "findSchedulingInbox" -> findSchedulingInboxAwait(resp)
    [] c.op = "findSchedulingOutbox" -> findSchedulingOutboxAwait(resp)
    [] OTHER -> PassThrough(resp)

Awaiting(i) ==
  /\ i \in DOMAIN calls
  /\ calls[i].state = "pending"

\* The library answers the one request of call i; the call's continuation runs.
Respond(i) ==
  /\ Awaiting(i)
  /\ calls[i].op \notin {"findPublicCalendarsByTokens", "enableBirthdayCalendar"}
  /\ calls[i].reqs[1].status = "pending"
  /\ \E resp \in Responses(calls[i].reqs[1]) :
       /\ Effects(calls[i].reqs[1], resp)
       /\ calls' = [calls EXCEPT ![i] =
            Finish([@ EXCEPT !.reqs[1] = Answered(@, resp)], Resume(calls[i], resp))]
  /\ UNCHANGED <<module, arrived, browser, settings>>

\* enableBirthdayCalendar after its await: a failed enable rejects the call;
\* otherwise getBirthdayCalendar() is called and its promise is the result.
enableBirthdayCalendarAwaitRetries(resp, home) ==
  IF ~resp.ok
    THEN [out |-> [state |-> "pending", value |-> NULL],
          reqs |-> <<Req(home, "enableBirthdayCalendar", <<>>)>>, uses |-> 1]
  ELSE IF home \in {UNDEFINED, NULL}
    THEN [out |-> Rejected(TypeError), reqs |-> <<>>, uses |-> 1]
    ELSE [out |-> [state |-> "pending", value |-> NULL],
          reqs |-> <<Req(home, "find", <<CALDAV_BIRTHDAY_CALENDAR>>)>>, uses |-> 1]

enableBirthdayCalendarAwaitAlwaysLooksUp(resp, home) ==
  IF home \in {UNDEFINED, NULL}
    THEN [out |-> Rejected(TypeError), reqs |-> <<>>, uses |-> 1]
    ELSE [out |-> [state |-> "pending", value |-> NULL],
          reqs |-> <<Req(home, "find", <<CALDAV_BIRTHDAY_CALENDAR>>)>>, uses |-> 1]

enableBirthdayCalendarAwait(resp, home) ==
  IF ~resp.ok THEN [out |-> Rejected(resp.value), reqs |-> <<>>, uses |-> 0]
  ELSE IF home \in {UNDEFINED, NULL}
    THEN [out |-> Rejected(TypeError), reqs |-> <<>>, uses |-> 1]
    ELSE [out |-> [state |-> "pending", value |-> NULL],
          reqs |-> <<Req(home, "find", <<CALDAV_BIRTHDAY_CALENDAR>>)>>, uses |-> 1]

RespondEnable(i) ==
  /\ Awaiting(i)
  /\ calls[i].op = "enableBirthdayCalendar"
  /\ Len(calls[i].reqs) = 1
  /\ \E resp \in Responses(calls[i].reqs[1]) :
       /\ Effects(calls[i].reqs[1], resp)
       /\ LET next == enableBirthdayCalendarAwait(resp, FirstHome)
          IN  /\ UseClient(next.uses)
              /\ calls' = [calls EXCEPT ![i] =
                   Finish([@ EXCEPT !.reqs = <<Answered(@[1], resp)>> \o next.reqs],
                          next.out)]
  /\ UNCHANGED <<arrived, browser, settings>>

\* The find issued by getBirthdayCalendar() inside enableBirthdayCalendar.
RespondEnableFind(i) ==
  /\ Awaiting(i)
  /\ calls[i].op = "enableBirthdayCalendar"
  /\ Len(calls[i].reqs) = 2
  /\ \E resp \in Responses(calls[i].reqs[2]) :
       /\ Effects(calls[i].reqs[2], resp)
       /\ calls' = [calls EXCEPT ![i] =
            Finish([@ EXCEPT !.reqs[2] = Answered(@, resp)], PassThrough(resp))]
  /\ UNCHANGED <<module, arrived, browser, settings>>

\* One token's find is answered; its .catch handler maps a failure to null.
\* (The specification says whether the answer is entered in `arrived`.)
RespondFind(i, j) ==
  /\ Awaiting(i)
  /\ calls[i].op = "findPublicCalendarsByTokens"
  /\ j \in DOMAIN calls[i].reqs
  /\ calls[i].reqs[j].status = "pending"
  /\ \E resp \in Responses(calls[i].reqs[j]) :
       /\ Effects(calls[i].reqs[j], resp)
       /\ calls' = [calls EXCEPT ![i].reqs[j] = Answered(@, resp)]
  /\ UNCHANGED <<module, browser, settings>>

\* await Promise.all(findPromises), then the filter.
findPublicCalendarsByTokensReturnInArrivalOrder(reqs) ==
  Fulfilled(List(filterNotNull(
    [k \in DOMAIN arrived |-> findPromiseValue(reqs[arrived[k]])])))

findPublicCalendarsByTokensReturn(reqs) ==
  Fulfilled(List(filterNotNull([j \in DOMAIN reqs |-> findPromiseValue(reqs[j])])))

JoinFind(i) ==
  /\ Awaiting(i)
  /\ calls[i].op = "findPublicCalendarsByTokens"
  /\ \A j \in DOMAIN calls[i].reqs : calls[i].reqs[j].status # "pending"
  /\ calls' = [calls EXCEPT ![i] =
       Finish(@, findPublicCalendarsByTokensReturn(calls[i].reqs))]
  /\ UNCHANGED <<module, session, server, arrived, browser, settings>>

\* ---------------------------------------------------------------- the request provider
\* The callback handed to new DavClient: the library calls it for a request
\* object and opens what it gets.

\* The headers object of one provider invocation, in the order of its keys.
providerHeadersWithoutCaching(token) ==
  <<<<"X-Requested-With", "XMLHttpRequest">>, <<"requesttoken", token>>>>

providerHeaders(token) ==
  <<<<"X-Requested-With", "XMLHttpRequest">>,
    <<"requesttoken", token>>,
    <<"X-NC-CalDAV-Webcal-Caching", "On">>>>

\* new XMLHttpRequest(), with the headers object its open() closes over.
XMLHttpRequest(scope) == [opens |-> 0, thrown |-> 0, headers |-> <<>>, scope |-> scope]

\* The browser's open(): the request is (re)opened and its headers are cleared.
oldOpen(x) == [x EXCEPT !.opens = @ + 1, !.headers = <<>>]

\* The browser's setRequestHeader for every name of the headers object.
RECURSIVE setRequestHeaders(_, _)
setRequestHeaders(x, headers) ==
  IF headers = <<>> THEN x
  ELSE setRequestHeaders([x EXCEPT !.headers = Append(@, Head(headers))],
                         Tail(headers))

\* xhr.open as the provider replaces it: the browser's open, then the headers.
xhrOpen(x) == setRequestHeaders(oldOpen(x), x.scope)

\* The library asks for a request object.
Provider ==
  /\ client # NULL
  /\ Len(xhrs) < MaxXhrs
  /\ xhrs' = Append(xhrs, XMLHttpRequest(providerHeaders(requestToken)))
  /\ provided' = Append(provided, [xhr |-> Len(xhrs) + 1, token |-> requestToken])
  /\ UNCHANGED <<module, session, server, calls, arrived, requestToken, settings>>

\* open() is called on request k; when the browser's open throws, the
\* exception leaves the replaced open before any header is set.
Open(k, throws) ==
  /\ k \in DOMAIN xhrs
  /\ xhrs[k].opens + xhrs[k].thrown < MaxOpens
  /\ xhrs' = [xhrs EXCEPT ![k] =
       IF throws THEN [@ EXCEPT !.thrown = @ + 1] ELSE xhrOpen(@)]
  /\ UNCHANGED <<module, session, server, calls, arrived, requestToken, provided,
                 settings>>

\* The page's request token is renewed.
RotateToken ==
  /\ \E token \in RequestTokens \ {requestToken} : requestToken' = token
  /\ UNCHANGED <<module, session, server, calls, arrived, xhrs, provided, settings>>

\* ---------------------------------------------------------------- the settings component
\* The six toggle handlers and changeSlotDuration of the Settings component,
\* each invoked by the event of its control in the template.
Toggles == {"toggleBirthdayEnabled", "toggleEventLimitEnabled", "toggleTasksEnabled",
            "togglePopoverEnabled", "toggleWeekendsEnabled",
            "toggleWeekNumberEnabled"}

\* The flag a handler sets, and the store action it dispatches.
FlagOf(h) ==
  CASE h = "toggleBirthdayEnabled" -> "savingBirthdayCalendar"
    [] h = "toggleEventLimitEnabled" -> "savingEventLimit"
    [] h = "toggleTasksEnabled" -> "savingTasks"
    [] h = "togglePopoverEnabled" -> "savingPopover"
    [] h = "toggleWeekendsEnabled" -> "savingWeekend"
    [] h = "toggleWeekNumberEnabled" -> "savingWeekNumber"
    [] h = "changeSlotDuration" -> "savingSlotDuration"

ActionOf(h) ==
  CASE h = "toggleBirthdayEnabled" -> "toggleBirthdayCalendarEnabled"
    [] h = "changeSlotDuration" -> "setSlotDuration"
    [] OTHER -> h

\* The options the slot-duration select can hand over; null is no option.
Options == {NULL, [value |-> "00:30:00"]}

isBirthdayCalendarDisabled == saving["savingBirthdayCalendar"] \/ loadingCalendars

\* :disabled of the control that invokes handler h.
Disabled(h) ==
  IF h = "toggleBirthdayEnabled" THEN isBirthdayCalendarDisabled
  ELSE saving[FlagOf(h)]

CanInvoke(h) == Len(handlers) < MaxHandlers /\ ~Disabled(h)

\* A handler up to its await: the flag is set and the dispatch is out.
Dispatching(h, option) ==
  [handler |-> h, option |-> option, flag |-> FlagOf(h), action |-> ActionOf(h),
   status |-> "pending", state |-> "pending"]

toggleEnabled(h) ==
  /\ CanInvoke(h)
  /\ saving' = [saving EXCEPT ![FlagOf(h)] = TRUE]
  /\ handlers' = Append(handlers, Dispatching(h, NULL))
  /\ UNCHANGED <<module, session, server, calls, arrived, browser, loadingCalendars>>

\* if (!option) return, before the flag is touched.
changeSlotDuration(option) ==
  /\ CanInvoke("changeSlotDuration")
  /\ IF option = NULL
       THEN /\ handlers' = Append(handlers,
                   [Dispatching("changeSlotDuration", option)
                      EXCEPT !.status = "none", !.state = "fulfilled"])
            /\ UNCHANGED saving
       ELSE /\ saving' = [saving EXCEPT !["savingSlotDuration"] = TRUE]
            /\ handlers' = Append(handlers, Dispatching("changeSlotDuration", option))
  /\ UNCHANGED <<module, session, server, calls, arrived, browser, loadingCalendars>>

\* A handler after its await: the rest of try when the dispatch succeeded,
\* the catch block when it failed. Either way the flag is reset and the
\* handler returns.
dispatchSettledKeepsFlagOnError(ok) == [saving |-> ~ok, state |-> "fulfilled"]

dispatchSettled(ok) ==
  IF ok THEN [saving |-> FALSE, state |-> "fulfilled"]
  ELSE [saving |-> FALSE, state |-> "fulfilled"]

Settle(i) ==
  /\ i \in DOMAIN handlers
  /\ handlers[i].status = "pending"
  /\ \E ok \in BOOLEAN :
       LET out == dispatchSettled(ok)
       IN  /\ saving' = [saving EXCEPT ![handlers[i].flag] = out.saving]
           /\ handlers' = [handlers EXCEPT
                ![i].status = IF ok THEN "ok" ELSE "failed",
                ![i].state = out.state]
  /\ UNCHANGED <<module, session, server, calls, arrived, browser, loadingCalendars>>

\* The parent changes the loadingCalendars prop.
SetLoadingCalendars ==
  /\ loadingCalendars' = ~loadingCalendars
  /\ UNCHANGED <<module, session, server, calls, arrived, browser, saving, handlers>>

\* ---------------------------------------------------------------- specification
Init ==
  /\ client = NULL
  /\ constructed = 0
  /\ handed = {}
  /\ calendarHomes = <<>>
  /\ publicCalendarHome = NULL
  /\ currentUserPrincipal = NULL
  /\ birthdayEnabled \in BOOLEAN
  /\ serverCalendars = <<>>
  /\ calls = <<>>
  /\ recursion = {}
  /\ arrived = <<>>
  /\ requestToken = "token1"
  /\ xhrs = <<>>
  /\ provided = <<>>
  /\ saving = [flag \in Flags |-> FALSE]
  /\ loadingCalendars = FALSE
  /\ handlers = <<>>

\* Any of the thirteen operations is called, or a request is answered.
CanCall == Len(calls) < MaxCalls

Next ==
  \/ CanCall /\ initializeClientForUserView
  \/ CanCall /\ initializeClientForPublicView
  \/ CanCall /\ findAllCalendars
  \/ CanCall /\ \E tokens \in FewTokenLists : findPublicCalendarsByTokens(tokens)
  \/ CanCall /\ findSchedulingInbox
  \/ CanCall /\ findSchedulingOutbox
  \/ CanCall /\ \E args \in CalendarArgs : createCalendar(args)
  \/ CanCall /\ \E args \in SubscriptionArgs : createSubscription(args)
  \/ CanCall /\ enableBirthdayCalendar
  \/ CanCall /\ getBirthdayCalendar
  \/ CanCall /\ getCurrentUserPrincipal
  \/ CanCall /\ \E query \in Queries : findPrincipalsByDisplayName(query)
  \/ CanCall /\ \E url \in Urls : findPrincipalByUrl(url)
  \/ \E i \in DOMAIN calls : Respond(i)
  \/ \E i \in DOMAIN calls : RespondEnable(i)
  \/ \E i \in DOMAIN calls : RespondEnableFind(i)
  \/ \E i \in DOMAIN calls : \E j \in DOMAIN calls[i].reqs :
       RespondFind(i, j) /\ UNCHANGED arrived
  \/ \E i \in DOMAIN calls : JoinFind(i)

Spec == Init /\ [][Next]_vars

\* The public view: the public initializer and token batches of every length
\* up to MaxTokens.
NextTokens ==
  \/ CanCall /\ initializeClientForPublicView
  \/ CanCall /\ \E tokens \in TokenLists : findPublicCalendarsByTokens(tokens)
  \/ \E i \in DOMAIN calls : Respond(i)
  \/ \E i \in DOMAIN calls : \E j \in DOMAIN calls[i].reqs :
       RespondFind(i, j) /\ UNCHANGED arrived
  \/ \E i \in DOMAIN calls : JoinFind(i)

SpecTokens == Init /\ [][NextTokens]_vars

\* One token batch on a public session, the order of its answers recorded.
NextArrival ==
  \/ calls = <<>> /\ initializeClientForPublicView
  \/ /\ Len(calls) = 1
     /\ calls[1].state # "pending"
     /\ \E tokens \in TokenLists : findPublicCalendarsByTokens(tokens)
  \/ \E i \in DOMAIN calls : Respond(i)
  \/ \E i \in DOMAIN calls : \E j \in DOMAIN calls[i].reqs :
       RespondFind(i, j) /\ arrived' = Append(arrived, j)
  \/ \E i \in DOMAIN calls : JoinFind(i)

SpecArrival == Init /\ [][NextArrival]_vars

\* The birthday calendar: the user initializer, then MaxCalls calls of the two
\* birthday operations, each made when the one before it has settled.
CanCallNext ==
  /\ calls # <<>>
  /\ Len(calls) < MaxCalls + 1
  /\ \A i \in DOMAIN calls : calls[i].state # "pending"

NextBirthday ==
  \/ calls = <<>> /\ initializeClientForUserView
  \/ CanCallNext /\ enableBirthdayCalendar
  \/ CanCallNext /\ getBirthdayCalendar
  \/ \E i \in DOMAIN calls : Respond(i)
  \/ \E i \in DOMAIN calls : RespondEnable(i)
  \/ \E i \in DOMAIN calls : RespondEnableFind(i)

SpecBirthday == Init /\ [][NextBirthday]_vars

\* The request provider: the user initializer builds the client, the library
\* asks for request objects and opens them, the request token is renewed.
NextXhr ==
  \/ calls = <<>> /\ initializeClientForUserView
  \/ \E i \in DOMAIN calls : Respond(i)
  \/ Provider
  \/ \E k \in DOMAIN xhrs : \E throws \in BOOLEAN : Open(k, throws)
  \/ RotateToken

SpecXhr == Init /\ [][NextXhr]_vars

\* The settings component: its controls are used, the store answers.
NextSettings ==
  \/ \E h \in Toggles : toggleEnabled(h)
  \/ \E option \in Options : changeSlotDuration(option)
  \/ \E i \in DOMAIN handlers : Settle(i)
  \/ SetLoadingCalendars

SpecSettings == Init /\ [][NextSettings]_vars

\* The calendars of the user's home: the user initializer, then MaxCalls calls
\* of createCalendar and findAllCalendars, each made when the one before it
\* has settled.
NextCalendars ==
  \/ calls = <<>> /\ initializeClientForUserView
  \/ CanCallNext /\ \E args \in CalendarArgs : createCalendar(args)
  \/ CanCallNext /\ findAllCalendars
  \/ \E i \in DOMAIN calls : Respond(i)

SpecCalendars == Init /\ [][NextCalendars]_vars

\* ---------------------------------------------------------------- properties
Call(i) == calls[i]
Settled(c) == c.state # "pending"

\* C1: getClient hands every caller the same client instance, new DavClient
\* runs at most once, and the module variable never changes once it is set.
GetClientIsSingleton ==
  /\ [](/\ constructed <= 1
        /\ (client = NULL) <=> (constructed = 0)
        /\ handed \subseteq {client})
  /\ [][client # NULL => client' = client]_vars

\* Two calls in flight at once, both holding the one client.
TwoCallsShareClient ==
  /\ Len(calls) = 2
  /\ \A i \in DOMAIN calls : Call(i).state = "pending" /\ Call(i).target = client
  /\ constructed = 1
  /\ handed = {client}

\* The requests of call c the server accepted, and how often v occurs in list.
Accepted(c) == {j \in DOMAIN c.reqs : c.reqs[j].status = "ok"}
Count(list, v) == Cardinality({k \in DOMAIN list : list[k] = v})

\* C2: on a session with a public calendar home (or with no token at all),
\* findPublicCalendarsByTokens never rejects, whatever the order of the answers,
\* and fulfils with at most |T| entries: one for each token whose find the
\* server accepted, none for a rejected one (N - 1 entries for one invalid
\* token among N).
TokenBatchOmitsRejected ==
  \A i \in DOMAIN calls :
    LET c == Call(i)
    IN  (/\ c.op = "findPublicCalendarsByTokens"
         /\ c.seen.publicHome # NULL \/ c.args = <<>>) =>
          /\ c.state \in {"pending", "fulfilled"}
          /\ c.state = "fulfilled" =>
               /\ Len(c.value.list) <= Len(c.args)
               /\ Len(c.value.list) = Cardinality(Accepted(c))
               /\ \A j \in DOMAIN c.reqs :
                    c.reqs[j].status = "failed" => Count(c.value.list, c.reqs[j].value) = 0
               /\ \A t \in Tokens :
                    Count(c.value.list, PublicCalendar(t))
                      = Cardinality({j \in Accepted(c) : c.args[j] = t})

\* A batch of two tokens, one of them rejected, has been delivered.
BatchWithOneInvalidToken ==
  \E i \in DOMAIN calls :
    /\ Call(i).op = "findPublicCalendarsByTokens"
    /\ Call(i).state = "fulfilled"
    /\ Len(Call(i).args) = 2
    /\ Cardinality(Accepted(Call(i))) = 1
    /\ Len(Call(i).value.list) = 1

\* C3: getCurrentUserPrincipal on a session that only the public initializer
\* has set up fails with NotAuthenticatedError and returns no value.
PrincipalOnPublicSessionFails ==
  \A i \in DOMAIN calls :
    (/\ Call(i).op = "getCurrentUserPrincipal"
     /\ Call(i).seen.publicHome # NULL
     /\ \A k \in 1..(i - 1) : Call(k).op # "initializeClientForUserView") =>
       /\ Call(i).state = "threw"
       /\ Call(i).value = Error("NotAuthenticatedError")

\* C4: the session never holds user calendar homes and a public calendar home
\* at once.
SessionModeIsExclusive ==
  ~(calendarHomes # <<>> /\ publicCalendarHome # NULL)

\* C5: of two enableBirthdayCalendar calls in succession on a user session,
\* the second never fails with an "already exists" error and returns the same
\* calendar as the first.
EnableTwiceReturnsSameCalendar ==
  \A i \in DOMAIN calls : \A k \in DOMAIN calls :
    (/\ k = i + 1
     /\ Call(i).op = "enableBirthdayCalendar"
     /\ Call(k).op = "enableBirthdayCalendar"
     /\ Call(i).state = "fulfilled"
     /\ Settled(Call(k))) =>
       /\ Call(k).value # Error(AlreadyExists)
       /\ Call(k).state = "fulfilled" => Call(k).value = Call(i).value

BirthdayLookupAbsentWhenNeverEnabled ==
  \A i \in DOMAIN calls :
    (/\ Call(i).op = "getBirthdayCalendar"
     /\ Call(i).reqs # <<>>
     /\ Call(i).reqs[1].status = "failed"
     /\ Call(i).reqs[1].value = Error(NotFound)) =>
       /\ Call(i).state = "fulfilled"
       /\ Call(i).value \in {UNDEFINED, NULL}

\* C8: a failed connect always rejects initializeClientForUserView with the
\* connect error; the call completes successfully only when connect did.
ConnectFailureIsSurfaced ==
  \A i \in DOMAIN calls :
    Call(i).op = "initializeClientForUserView" =>
      /\ Call(i).reqs[1].kind = "connect"
      /\ Call(i).reqs[1].status = "failed" =>
           Call(i).state = "rejected" /\ Call(i).value = Call(i).reqs[1].value
      /\ Call(i).state = "fulfilled" => Call(i).reqs[1].status = "ok"
      /\ Call(i).state = "rejected" => Call(i).reqs[1].status = "failed"

\* connect has failed with a non-success status.
ConnectFailed ==
  \E i \in DOMAIN calls :
    /\ Call(i).op = "initializeClientForUserView"
    /\ Call(i).reqs[1].status = "failed"
    /\ Call(i).state = "rejected"
    /\ Call(i).value = Error("HttpError")

\* A step of an initializeClientForPublicView call: it is made, or it settles.
PublicViewStep ==
  \/ /\ Len(calls') = Len(calls) + 1
     /\ calls'[Len(calls')].op = "initializeClientForPublicView"
  \/ \E i \in DOMAIN calls :
       /\ Call(i).op = "initializeClientForPublicView"
       /\ Call(i).state # calls'[i].state

\* C9: initializeClientForPublicView issues the public-calendar-home creation
\* and nothing else (no connect, no principal discovery), and no step of it
\* changes the user calendar homes or the current user principal.
PublicViewOnlyCreatesPublicHome ==
  /\ [](\A i \in DOMAIN calls :
          Call(i).op = "initializeClientForPublicView" =>
            /\ Len(Call(i).reqs) = 1
            /\ Call(i).reqs[1].kind = "_createPublicCalendarHome")
  /\ [][PublicViewStep => UNCHANGED <<calendarHomes, currentUserPrincipal>>]_vars

\* The public initializer has completed on a session that has user homes.
PublicViewAfterUserView ==
  /\ \E i \in DOMAIN calls :
       /\ Call(i).op = "initializeClientForPublicView"
       /\ Call(i).state = "fulfilled"
  /\ publicCalendarHome = PublicHome
  /\ calendarHomes = <<UserHome>>
  /\ currentUserPrincipal = Principal

\* C10: in every operation but findPublicCalendarsByTokens, a request that
\* fails with e makes the caller observe a failure with that same e; none of
\* them completes successfully with a failed request.
TransportErrorsPropagate ==
  \A i \in DOMAIN calls :
    Call(i).op # "findPublicCalendarsByTokens" =>
      \A j \in DOMAIN Call(i).reqs :
        Call(i).reqs[j].status = "failed" =>
          /\ Call(i).state = "rejected"
          /\ Call(i).value = Call(i).reqs[j].value

\* enableBirthdayCalendar: the enable succeeded and the find that follows failed.
EnableFindFailed ==
  \E i \in DOMAIN calls :
    /\ Call(i).op = "enableBirthdayCalendar"
    /\ Len(Call(i).reqs) = 2
    /\ Call(i).reqs[1].status = "ok"
    /\ Call(i).reqs[2].status = "failed"
    /\ Call(i).state = "rejected"

\* The kinds of the requests call c has issued, in the order of their issue.
Kinds(c) == [j \in DOMAIN c.reqs |-> c.reqs[j].kind]

\* C11: no operation retries. A call issues at most one request (one per token
\* for findPublicCalendarsByTokens; one enable and then at most one find for
\* enableBirthdayCalendar), and no step issues a request for a settled call or
\* touches a request that has been answered, whether it succeeded or failed.
NoOperationRetries ==
  /\ [](\A i \in DOMAIN calls :
          LET c == Call(i)
          IN  CASE c.op = "findPublicCalendarsByTokens" ->
                     /\ Len(c.reqs) <= Len(c.args)
                     /\ \A j \in DOMAIN c.reqs : c.reqs[j].args = <<c.args[j]>>
                [] c.op = "enableBirthdayCalendar" ->
                     Kinds(c) \in {<<>>, <<"enableBirthdayCalendar">>,
                                   <<"enableBirthdayCalendar", "find">>}
                [] OTHER -> Len(c.reqs) <= 1)
  /\ [][\A i \in DOMAIN calls :
          /\ Len(calls'[i].reqs) >= Len(Call(i).reqs)
          /\ Settled(Call(i)) => calls'[i] = Call(i)
          /\ \A j \in DOMAIN Call(i).reqs :
               Call(i).reqs[j].status # "pending" =>
                 calls'[i].reqs[j] = Call(i).reqs[j]]_vars

\* createSubscription has been rejected by its one request, sent once.
SubscriptionFailedOnce ==
  \E i \in DOMAIN calls :
    /\ Call(i).op = "createSubscription"
    /\ Len(Call(i).reqs) = 1
    /\ Call(i).reqs[1].status = "failed"
    /\ Call(i).state = "rejected"

\* C12: on a user session createCalendar hands its five arguments, unchanged
\* and in their order, to createCalendarCollection of the first calendar home;
\* once it has fulfilled, every later findAllCalendars that fulfils lists a
\* calendar with that display name whose components include the requested ones.
CreateCalendarForwardsArguments ==
  \A i \in DOMAIN calls :
    LET c == Call(i)
    IN  (c.op = "createCalendar" /\ c.seen.homes # <<>>) =>
          /\ Len(c.reqs) = 1
          /\ c.reqs[1].on = c.seen.homes[1]
          /\ c.reqs[1].kind = "createCalendarCollection"
          /\ c.reqs[1].args = c.args
          /\ c.state = "fulfilled" =>
               \A k \in DOMAIN calls :
                 (/\ k > i
                  /\ Call(k).op = "findAllCalendars"
                  /\ Call(k).state = "fulfilled") =>
                   \E m \in DOMAIN Call(k).value.list :
                     /\ Call(k).value.list[m].displayName = c.args[1]
                     /\ c.args[3] \subseteq Call(k).value.list[m].components

\* A calendar has been created and a later findAllCalendars has listed it.
CreatedCalendarIsListed ==
  \E i \in DOMAIN calls : \E k \in DOMAIN calls :
    /\ k > i
    /\ Call(i).op = "createCalendar"
    /\ Call(i).state = "fulfilled"
    /\ Call(k).op = "findAllCalendars"
    /\ Call(k).state = "fulfilled"
    /\ Call(k).value.list # <<>>

\* C13: on a session with a public calendar home, findPublicCalendarsByTokens
\* has one find per input token out from the moment it is called, each on the
\* public calendar home and for the token of its position, before any of them
\* is answered; it delivers its result only when every one of them has settled.
TokenFindsAreIssuedTogether ==
  \A i \in DOMAIN calls :
    LET c == Call(i)
    IN  (c.op = "findPublicCalendarsByTokens" /\ c.seen.publicHome # NULL) =>
          /\ Len(c.reqs) = Len(c.args)
          /\ \A j \in DOMAIN c.reqs :
               /\ c.reqs[j].kind = "find"
               /\ c.reqs[j].on = c.seen.publicHome
               /\ c.reqs[j].args = <<c.args[j]>>
          /\ Settled(c) => \A j \in DOMAIN c.reqs : c.reqs[j].status # "pending"

\* The second token's find has been answered while the first is still out,
\* and the batch is held back.
SecondTokenAnsweredFirst ==
  \E i \in DOMAIN calls :
    /\ Call(i).op = "findPublicCalendarsByTokens"
    /\ Len(Call(i).reqs) = 2
    /\ Call(i).reqs[1].status = "pending"
    /\ Call(i).reqs[2].status # "pending"
    /\ Call(i).state = "pending"

\* The position in the input of the k-th token the server accepted.
NthAccepted(c, k) ==
  CHOOSE j \in Accepted(c) : Cardinality({m \in Accepted(c) : m <= j}) = k

\* C14: whatever the order in which the answers came in, a fulfilled
\* findPublicCalendarsByTokens returns the calendars of the accepted tokens in
\* the order of those tokens in the input, and nothing else.
TokenResultFollowsInputOrder ==
  \A i \in DOMAIN calls :
    LET c == Call(i)
    IN  (c.op = "findPublicCalendarsByTokens" /\ c.state = "fulfilled") =>
          /\ Len(c.value.list) = Cardinality(Accepted(c))
          /\ \A k \in DOMAIN c.value.list :
               c.value.list[k] = PublicCalendar(c.args[NthAccepted(c, k)])

\* Two tokens, both accepted, the second answered before the first: the
\* result is in the order of the input.
AnswersArrivedInReverse ==
  \E i \in DOMAIN calls :
    /\ Call(i).op = "findPublicCalendarsByTokens"
    /\ Call(i).state = "fulfilled"
    /\ Call(i).args = <<"tokA", "tokB">>
    /\ arrived = <<2, 1>>
    /\ Call(i).value.list = <<PublicCalendar("tokA"), PublicCalendar("tokB")>>

\* C15: enableBirthdayCalendar issues the lookup of the birthday calendar only
\* when its enable request has been answered with success: while the enable is
\* out there is no lookup, and when the enable fails there is none either and
\* the call is rejected with the error of the enable.
BirthdayLookupFollowsEnable ==
  \A i \in DOMAIN calls :
    LET c == Call(i)
    IN  (c.op = "enableBirthdayCalendar" /\ c.reqs # <<>>) =>
          /\ c.reqs[1].kind = "enableBirthdayCalendar"
          /\ c.reqs[1].status = "pending" => Len(c.reqs) = 1 /\ ~Settled(c)
          /\ c.reqs[1].status = "failed" =>
               /\ Len(c.reqs) = 1
               /\ c.state = "rejected"
               /\ c.value = c.reqs[1].value
          /\ Len(c.reqs) > 1 =>
               /\ c.reqs[1].status = "ok"
               /\ Len(c.reqs) = 2
               /\ c.reqs[2].kind = "find"
               /\ c.reqs[2].args = <<CALDAV_BIRTHDAY_CALENDAR>>

\* The enable request has failed: the call is rejected and no lookup is out.
EnableFailedWithoutLookup ==
  \E i \in DOMAIN calls :
    /\ Call(i).op = "enableBirthdayCalendar"
    /\ Len(Call(i).reqs) = 1
    /\ Call(i).reqs[1].status = "failed"
    /\ Call(i).state = "rejected"
    /\ Call(i).value = Error("NetworkError")

\* C17: every getClient() call returns. One that finds client null constructs
\* the client, assigns it and returns from its first nested call (depth 1);
\* one that finds client set returns without recursion (depth 0). No state
\* lies between the null check and the assignment: once any getClient() call
\* has begun, client is set and is what the call returned.
GetClientRecursesOnce ==
  /\ recursion \subseteq {[wasNull |-> TRUE, depth |-> 1],
                          [wasNull |-> FALSE, depth |-> 0]}
  /\ recursion # {} =>
       /\ client # NULL
       /\ handed = {client}
       /\ [wasNull |-> TRUE, depth |-> 1] \in recursion
  /\ recursion = {} => client = NULL /\ handed = {}

\* getClient() has run on a null client and, later, on a set one.
BothGetClientPathsTaken ==
  /\ recursion = {[wasNull |-> TRUE, depth |-> 1], [wasNull |-> FALSE, depth |-> 0]}
  /\ constructed = 1

\* The values request x carries for header `name`.
HeaderValues(x, name) ==
  [k \in {m \in DOMAIN x.headers : x.headers[m][1] = name} |-> x.headers[k][2]]
Carries(x, name, value) ==
  \E k \in DOMAIN x.headers : HeaderValues(x, name) = (k :> value)

\* C16: a request the provider has returned carries no header before its
\* first open(); once opened it carries X-Requested-With: XMLHttpRequest,
\* requesttoken (the request token read when the provider produced it) and
\* X-NC-CalDAV-Webcal-Caching: On; every open() that opens it leaves it with
\* exactly these headers; and no two provider calls return the same request.
ProvidedRequestsCarryHeaders ==
  /\ [](\A n \in DOMAIN provided :
          LET x == xhrs[provided[n].xhr]
          IN  /\ x.opens = 0 => x.headers = <<>>
              /\ x.opens > 0 =>
                   /\ Carries(x, "X-Requested-With", "XMLHttpRequest")
                   /\ Carries(x, "requesttoken", provided[n].token)
                   /\ Carries(x, "X-NC-CalDAV-Webcal-Caching", "On")
                   /\ Len(x.headers) = 3
              /\ \A m \in DOMAIN provided : provided[m].xhr = provided[n].xhr => m = n)
  /\ [][\A n \in DOMAIN provided :
          LET k == provided[n].xhr
          IN  xhrs'[k].opens > xhrs[k].opens =>
                /\ Carries(xhrs'[k], "X-Requested-With", "XMLHttpRequest")
                /\ Carries(xhrs'[k], "requesttoken", provided[n].token)
                /\ Carries(xhrs'[k], "X-NC-CalDAV-Webcal-Caching", "On")]_vars

\* Two requests from the provider, the first opened twice, the second not
\* yet, and the request token renewed since the first was produced.
RequestOpenedTwice ==
  /\ Len(provided) = 2
  /\ xhrs[provided[1].xhr].opens = 2
  /\ xhrs[provided[2].xhr].opens = 0
  /\ provided[1].token # requestToken

\* C18: each saving flag is true exactly while a dispatch started by its
\* handler is in flight: true whenever one is, false once all of them have
\* settled, with success or with failure; and no handler rejects: it returns
\* as soon as its dispatch has settled (or at once, without an option).
SavingFlagTracksDispatch ==
  /\ \A flag \in Flags :
       saving[flag] <=>
         \E i \in DOMAIN handlers :
           handlers[i].flag = flag /\ handlers[i].status = "pending"
  /\ \A i \in DOMAIN handlers :
       /\ handlers[i].state \in {"pending", "fulfilled"}
       /\ handlers[i].status # "pending" => handlers[i].state = "fulfilled"

\* One handler's dispatch has failed and its flag is down again, while
\* another handler's dispatch is in flight with its flag up.
FailedDispatchResetsFlag ==
  \E i \in DOMAIN handlers : \E k \in DOMAIN handlers :
    /\ handlers[i].status = "failed"
    /\ handlers[i].state = "fulfilled"
    /\ ~saving[handlers[i].flag]
    /\ handlers[k].status = "pending"
    /\ saving[handlers[k].flag]

====
